---- MODULE Spec2Model ----
(***************************************************************************)
(* Model of the Outliers widget, Orange/widgets/data/owoutliers.py.        *)
(*                                                                         *)
(* The widget is single threaded: every handler (a control callback, the   *)
(* arrival of a dataset, the Detect button, the report request) runs to    *)
(* completion, so each handler is one action.  The handlers are written as *)
(* operators on a record w of the widget's fields, so that a handler that  *)
(* calls others (set_data -> enable_controls -> commit -> _get_outliers -> *)
(* detect_outliers -> amended_data) is the composition of their operators. *)
(*                                                                         *)
(* Python's None is the empty tuple and a value x that may be None is the  *)
(* tuple <<x>>.  gamma is kept in hundredths and support_fraction in       *)
(* tenths (the steps of their spin boxes).                                 *)
(***************************************************************************)
EXTENDS Integers, Sequences, FiniteSets, TLC

\* ------------------------------------------------------------------ bounds
MaxRows == 2

\* --------------------------------------------------------- program values
None == <<>>

Some(x) == <<x>>

Val(o) == o[1]

OneClassSVM == 0

Covariance == 1

Methods == {OneClassSVM, Covariance}

MAX_FEATURES == 1500

\* the five widgets enable_covariance switches
CovWidgets == {"rb_cov", "l_cov", "cont_slider", "cb_emp_cov", "support_fraction_spin"}

\* values the controls can take (within the ranges their constructors give)
NuValues == {50, 1}

GammaValues == {1, 1000}

ContValues == {10, 0}

SupportFractionValues == {10, 1}

\* the empty input / output summary of the status bar
NoInput == None

NoOutput == None

\* --------------------------------------------------------------- datasets
\* A table: a domain (number of attribute columns, number of class columns,
\* names of the meta columns) and rows; a row has the identity of its
\* attribute and class values and its meta values.
MetaCounts == {1}

AttrCounts == {MAX_FEATURES, MAX_FEATURES + 1}

MkTable(na, nr, nm) ==
    [domain |-> [attributes |-> na, class_vars |-> 1,
                 metas |-> [j \in 1..nm |-> "m"]],
     rows |-> [i \in 1..nr |-> [id |-> i, metas |-> [j \in 1..nm |-> 10 * i + j]]]]

Tables == {MkTable(na, nr, nm) : na \in AttrCounts, nr \in 0..MaxRows, nm \in MetaCounts}

\* the signal on the Data input: a table, or None when the input is removed
\* (check_sql_input hands set_data an in-memory table or None as well)
Inputs == {None} \cup {Some(t) : t \in Tables}

\* len(table)
TableLen(t) == Len(t.rows)

\* truth value of a table-or-None (`if self.data`, `if inliers`): None is
\* false, and Python takes the truth value of an object that has a length
\* (the code takes len() of its tables) from that length: a table without
\* rows is false
TableBool(o) == o # None /\ TableLen(Val(o)) > 0

\* table[indices]
TableGetRows(t, ind) == [t EXCEPT !.rows = [k \in 1..Len(ind) |-> t.rows[ind[k]]]]

\* mutant: the comparison is >= instead of ==
where_mut(y, v) == SelectSeq([i \in 1..Len(y) |-> i], LAMBDA i : y[i] >= v)

\* np.where(y == v)[0]: the indices, ascending, where y has the value v
where(y, v) == SelectSeq([i \in 1..Len(y) |-> i], LAMBDA i : y[i] = v)

\* ------------------------------------------------------------ the learner
\* What fitting and predicting on a table can produce: a label per row and
\* (covariance estimator only) a Mahalanobis distance per row, or one of
\* the two exceptions _get_outliers catches.
Labels == {1, -1}

\* the distance vectors tried: all rows at distance 0, or row i at distance i
MahalVectors(n) == {[i \in 1..n |-> k * i] : k \in {0, 1}}

Outcomes(w) ==
    IF ~TableBool(w.data) THEN {[kind |-> "norun", y_pred |-> <<>>, mahal |-> <<>>]}
    ELSE LET n == TableLen(Val(w.data)) IN
         {[kind |-> "ok", y_pred |-> y, mahal |-> m] :
            y \in [1..n -> Labels],
            m \in IF w.outlier_method = Covariance
                  THEN MahalVectors(n) ELSE {<<>>}}
         \cup {[kind |-> k, y_pred |-> <<>>, mahal |-> <<>>] :
                 k \in {"ValueError", "MemoryError"}}

\* ------------------------------------------------------------------ state
VARIABLES
    data, outlier_method, nu, gamma, cont, empirical_covariance,
    support_fraction, n_inliers, n_outliers,
    enabled,                \* CovWidgets -> BOOLEAN
    Warning_disabled_cov, Error_singular_cov, Error_memory_error,
    input_summary, output_summary,
    Outputs_inliers, Outputs_outliers,   \* last value sent on each output
    report,                 \* what the last handler emitted as report
    \* history: the locals of the last commit, whether the counts were
    \* known when it started, the last call of detect_outliers, the last
    \* handler and the method it started from
    y_pred, amended, prior_known, last_run, last_op, prev_method

vars == <<data, outlier_method, nu, gamma, cont, empirical_covariance,
          support_fraction, n_inliers, n_outliers, enabled,
          Warning_disabled_cov, Error_singular_cov, Error_memory_error,
          input_summary, output_summary, Outputs_inliers, Outputs_outliers,
          report, y_pred, amended, prior_known, last_run, last_op, prev_method>>

\* the widget as a record
W ==
    [data |-> data, outlier_method |-> outlier_method, nu |-> nu,
     gamma |-> gamma, cont |-> cont,
     empirical_covariance |-> empirical_covariance,
     support_fraction |-> support_fraction,
     n_inliers |-> n_inliers, n_outliers |-> n_outliers, enabled |-> enabled,
     Warning_disabled_cov |-> Warning_disabled_cov,
     Error_singular_cov |-> Error_singular_cov,
     Error_memory_error |-> Error_memory_error,
     input_summary |-> input_summary, output_summary |-> output_summary,
     Outputs_inliers |-> Outputs_inliers, Outputs_outliers |-> Outputs_outliers,
     y_pred |-> y_pred, amended |-> amended, prior_known |-> prior_known,
     last_run |-> last_run]

\* the next state is the record n
Apply(n) ==
    /\ data' = n.data
    /\ outlier_method' = n.outlier_method
    /\ nu' = n.nu
    /\ gamma' = n.gamma
    /\ cont' = n.cont
    /\ empirical_covariance' = n.empirical_covariance
    /\ support_fraction' = n.support_fraction
    /\ n_inliers' = n.n_inliers
    /\ n_outliers' = n.n_outliers
    /\ enabled' = n.enabled
    /\ Warning_disabled_cov' = n.Warning_disabled_cov
    /\ Error_singular_cov' = n.Error_singular_cov
    /\ Error_memory_error' = n.Error_memory_error
    /\ input_summary' = n.input_summary
    /\ output_summary' = n.output_summary
    /\ Outputs_inliers' = n.Outputs_inliers
    /\ Outputs_outliers' = n.Outputs_outliers
    /\ y_pred' = n.y_pred
    /\ amended' = n.amended
    /\ prior_known' = n.prior_known
    /\ last_run' = n.last_run

\* the handler op ran from the current state
Record(op) ==
    /\ last_op' = op
    /\ prev_method' = outlier_method

\* --------------------------------------------------------------- handlers
nu_changed(w) == [w EXCEPT !.outlier_method = OneClassSVM]

gamma_changed(w) == [w EXCEPT !.outlier_method = OneClassSVM]

\* mutant: the callback leaves the method alone
cont_changed_mut(w) == w

cont_changed(w) == [w EXCEPT !.outlier_method = Covariance]

support_fraction_changed(w) == [w EXCEPT !.outlier_method = Covariance]

empirical_changed(w) == [w EXCEPT !.outlier_method = Covariance]

enable_covariance(w, enable) == [w EXCEPT !.enabled = [x \in CovWidgets |-> enable]]

clear_messages(w) ==
    [w EXCEPT !.Warning_disabled_cov = FALSE,
              !.Error_singular_cov = FALSE,
              !.Error_memory_error = FALSE]

\* mutant: the guard disables the controls and warns but keeps the method
enable_controls_mut(w) ==
    LET w1 == enable_covariance(w, TRUE) IN
    IF TableBool(w1.data) /\ Val(w1.data).domain.attributes > MAX_FEATURES
    THEN [enable_covariance(w1, FALSE) EXCEPT !.Warning_disabled_cov = TRUE]
    ELSE w1

enable_controls(w) ==
    LET w1 == enable_covariance(w, TRUE) IN
    IF TableBool(w1.data) /\ Val(w1.data).domain.attributes > MAX_FEATURES
    THEN [enable_covariance([w1 EXCEPT !.outlier_method = OneClassSVM], FALSE)
            EXCEPT !.Warning_disabled_cov = TRUE]
    ELSE w1

\* mutant: the new meta column replaces the metas instead of extending them
amended_data_mut(w, model) ==
    IF w.outlier_method # Covariance THEN Val(w.data)
    ELSE LET d == Val(w.data)
         IN [domain |-> [d.domain EXCEPT !.metas = <<"Mahalanobis">>],
             rows |-> [i \in 1..TableLen(d) |->
                         [d.rows[i] EXCEPT !.metas = <<model.mahal[i]>>]]]

amended_data(w, model) ==
    IF w.outlier_method # Covariance THEN Val(w.data)
    ELSE LET d == Val(w.data)
             new_metas == Append(d.domain.metas, "Mahalanobis")
         IN [domain |-> [d.domain EXCEPT !.metas = new_metas],
             rows |-> [i \in 1..TableLen(d) |->
                         [d.rows[i] EXCEPT !.metas = Append(@, model.mahal[i])]]]

\* the result of detect_outliers: the exception raised, or the pair
detect_outliers(w, model) ==
    IF model.kind # "ok"
    THEN [raised |-> model.kind, y_pred |-> None, amended_data |-> None]
    ELSE [raised |-> "", y_pred |-> Some(model.y_pred),
          amended_data |-> Some(amended_data(w, model))]

\* mutant: only the first of the two errors is cleared
clear_errors_mut(w) == [w EXCEPT !.Error_singular_cov = FALSE]

\* the two clear() calls that open _get_outliers
clear_errors(w) == [w EXCEPT !.Error_singular_cov = FALSE, !.Error_memory_error = FALSE]

\* mutant: the two except clauses show each other's message
show_error_mut(w, raised) ==
    IF raised = "ValueError" THEN [w EXCEPT !.Error_memory_error = TRUE]
    ELSE IF raised = "MemoryError" THEN [w EXCEPT !.Error_singular_cov = TRUE]
    ELSE w

\* the except clauses of _get_outliers: the message each exception shows
show_error(w, raised) ==
    IF raised = "ValueError" THEN [w EXCEPT !.Error_singular_cov = TRUE]
    ELSE IF raised = "MemoryError" THEN [w EXCEPT !.Error_memory_error = TRUE]
    ELSE w

\* the widget after _get_outliers, and the pair it returns
get_outliers(w, model) ==
    LET w1 == [clear_errors(w) EXCEPT
                        !.last_run = Some([attributes |-> Val(w.data).domain.attributes,
                                           method |-> w.outlier_method,
                                           kind |-> model.kind,
                                           current |-> TRUE])]
        r == detect_outliers(w1, model)
    IN  IF r.raised # ""
        THEN [w |-> show_error(w1, r.raised), inliers |-> None, outliers |-> None]
        ELSE LET inliers_ind == where(Val(r.y_pred), 1)
                 outliers_ind == where(Val(r.y_pred), -1)
                 inliers == TableGetRows(Val(r.amended_data), inliers_ind)
                 outliers == TableGetRows(Val(r.amended_data), outliers_ind)
             IN [w |-> [w1 EXCEPT !.n_inliers = Some(TableLen(inliers)),
                                  !.n_outliers = Some(TableLen(outliers)),
                                  !.y_pred = r.y_pred,
                                  !.amended = r.amended_data],
                 inliers |-> Some(inliers), outliers |-> Some(outliers)]

\* mutant: commit does not forget the counts of the run before
reset_counts_mut(w) == w

\* self.n_inliers = self.n_outliers = None
reset_counts(w) == [w EXCEPT !.n_inliers = None, !.n_outliers = None]

commit(w, model) ==
    LET w1 == [reset_counts(w) EXCEPT !.y_pred = None, !.amended = None,
                                      !.prior_known = w.n_inliers # None]
        g == IF TableBool(w1.data) THEN get_outliers(w1, model)
             ELSE [w |-> w1, inliers |-> None, outliers |-> None]
        summary == IF TableBool(g.inliers) THEN Some(TableLen(Val(g.inliers)))
                   ELSE NoOutput
    IN [g.w EXCEPT !.output_summary = summary,
                   !.Outputs_inliers = g.inliers,
                   !.Outputs_outliers = g.outliers]

\* set_data up to the call of commit
set_data_pre(w, d) ==
    enable_controls([clear_messages(w) EXCEPT
                       !.data = d,
                       !.last_run = IF @ = None THEN None
                                    ELSE Some([Val(@) EXCEPT !.current = FALSE]),
                       !.input_summary = IF TableBool(d) THEN Some(TableLen(Val(d)))
                                         ELSE NoOutput])

\* mutant: a removed input returns before commit
set_data_mut(w, d, model) ==
    IF d = None THEN set_data_pre(w, d) ELSE commit(set_data_pre(w, d), model)

set_data(w, d, model) == commit(set_data_pre(w, d), model)

\* what send_report emits: None, or the two groups of report items
send_report(w) ==
    IF w.n_outliers = None \/ w.n_inliers = None THEN None
    ELSE Some([Data |-> <<TableLen(Val(w.data)), Val(w.n_inliers), Val(w.n_outliers)>>,
               Detection |->
                 IF w.outlier_method = 0
                 THEN [method |-> "One class SVM with non-linear kernel (RBF)",
                       items |-> <<w.nu, w.gamma>>]
                 ELSE [method |-> "Covariance estimator",
                       items |-> <<w.cont, w.support_fraction>>]])

\* ---------------------------------------------------------------- actions
Init ==
    /\ data = None
    /\ n_inliers = None
    /\ n_outliers = None
    /\ outlier_method \in Methods
    /\ nu \in NuValues
    /\ gamma \in GammaValues
    /\ cont \in ContValues
    /\ empirical_covariance \in BOOLEAN
    /\ support_fraction \in SupportFractionValues
    /\ enabled = [x \in CovWidgets |-> TRUE]
    /\ Warning_disabled_cov = FALSE
    /\ Error_singular_cov = FALSE
    /\ Error_memory_error = FALSE
    /\ input_summary = NoInput
    /\ output_summary = NoOutput
    /\ Outputs_inliers = None
    /\ Outputs_outliers = None
    /\ report = None
    /\ y_pred = None
    /\ amended = None
    /\ prior_known = FALSE
    /\ last_run = None
    /\ last_op = "__init__"
    /\ prev_method = outlier_method

\* the user picks a radio button of the method group
SelectMethod ==
    \E m \in Methods :
        /\ m # outlier_method
        /\ m = Covariance => enabled["rb_cov"]
        /\ Apply([W EXCEPT !.outlier_method = m])
        /\ Record("radio")
        /\ report' = None

NuChanged ==
    \E v \in NuValues \ {nu} :
        /\ Apply(nu_changed([W EXCEPT !.nu = v]))
        /\ Record("nu_changed")
        /\ report' = None

GammaChanged ==
    \E v \in GammaValues \ {gamma} :
        /\ Apply(gamma_changed([W EXCEPT !.gamma = v]))
        /\ Record("gamma_changed")
        /\ report' = None

ContChanged ==
    \E v \in ContValues \ {cont} :
        /\ enabled["cont_slider"]
        /\ Apply(cont_changed([W EXCEPT !.cont = v]))
        /\ Record("cont_changed")
        /\ report' = None

SupportFractionChanged ==
    \E v \in SupportFractionValues \ {support_fraction} :
        /\ enabled["support_fraction_spin"]
        /\ Apply(support_fraction_changed([W EXCEPT !.support_fraction = v]))
        /\ Record("support_fraction_changed")
        /\ report' = None

EmpiricalChanged ==
    /\ enabled["cb_emp_cov"]
    /\ Apply(empirical_changed([W EXCEPT !.empirical_covariance = ~empirical_covariance]))
    /\ Record("empirical_changed")
    /\ report' = None

SetData ==
    \E d \in Inputs :
        \E model \in Outcomes(set_data_pre(W, d)) :
            /\ Apply(set_data(W, d, model))
            /\ Record("set_data")
            /\ report' = None

\* the Detect Outliers button
Commit ==
    \E model \in Outcomes(W) :
        /\ Apply(commit(W, model))
        /\ Record("commit")
        /\ report' = None

SendReport ==
    /\ report' = send_report(W)
    /\ Apply(W)
    /\ Record("send_report")

Next ==
    \/ SelectMethod
    \/ NuChanged
    \/ GammaChanged
    \/ ContChanged
    \/ SupportFractionChanged
    \/ EmpiricalChanged
    \/ SetData
    \/ Commit
    \/ SendReport

Spec == Init /\ [][Next]_vars

\* ======================================================== checked claims
AllCovEnabled == \A x \in CovWidgets : enabled[x]

AllCovDisabled == \A x \in CovWidgets : ~enabled[x]

Known == n_inliers # None

Published == Outputs_inliers # None

\* the last commit fitted a learner, and it ended as kind
LastRun(kind) == last_run # None /\ Val(last_run).current /\ Val(last_run).kind = kind

\* how often the row r occurs in the table t
Occurrences(t, r) == Cardinality({k \in 1..TableLen(t) : t.rows[k] = r})

\* the rows of t appear in the order of their identities
InOrder(t) == \A k, l \in 1..TableLen(t) : k < l => t.rows[k].id < t.rows[l].id

\* C1: after a successful run the two outputs partition the rows of the
\* (augmented) input: a row labelled +1 is exactly once among the inliers
\* and not among the outliers, a row labelled -1 the other way round, and
\* the outputs hold nothing else.
C1_OutputsPartitionInput ==
    Published =>
        /\ Outputs_outliers # None /\ amended # None /\ y_pred # None
        /\ LET a == Val(amended)
               y == Val(y_pred)
               inl == Val(Outputs_inliers)
               outl == Val(Outputs_outliers)
           IN /\ TableLen(a) = TableLen(Val(data))
              /\ \A i \in 1..TableLen(a) :
                    /\ a.rows[i].id = Val(data).rows[i].id
                    /\ Occurrences(inl, a.rows[i]) = (IF y[i] = 1 THEN 1 ELSE 0)
                    /\ Occurrences(outl, a.rows[i]) = (IF y[i] = -1 THEN 1 ELSE 0)
                    /\ Occurrences(inl, a.rows[i]) + Occurrences(outl, a.rows[i]) = 1
              /\ TableLen(inl) + TableLen(outl) = TableLen(a)
              /\ inl.domain = a.domain /\ outl.domain = a.domain

C1_Witness ==
    /\ Published
    /\ TableLen(Val(Outputs_inliers)) > 0
    /\ TableLen(Val(Outputs_outliers)) > 0

\* C2 (as claimed): whenever the current dataset has more than 1500
\* attribute columns, the Covariance controls are disabled and the active
\* method is OneClassSVM.
C2_Claim_GuardOnEveryWideDataset ==
    (data # None /\ Val(data).domain.attributes > MAX_FEATURES)
        => (AllCovDisabled /\ outlier_method = OneClassSVM)

\* C3: a callback of a control of the SVM group leaves OneClassSVM active,
\* a callback of a control of the covariance group leaves Covariance active.
C3_ControlSelectsItsGroup ==
    /\ last_op \in {"nu_changed", "gamma_changed"} => outlier_method = OneClassSVM
    /\ last_op \in {"cont_changed", "support_fraction_changed", "empirical_changed"}
          => outlier_method = Covariance

C3_Witness ==
    /\ last_op = "cont_changed"
    /\ prev_method = OneClassSVM
    /\ outlier_method = Covariance

\* C4: when the last run raised ValueError (MemoryError), both outputs are
\* None, the singular-covariance (not-enough-memory) error is shown and both
\* counts are None.
C4_FailedRunPublishesNothing ==
    /\ LastRun("ValueError") =>
          /\ Outputs_inliers = None /\ Outputs_outliers = None
          /\ Error_singular_cov
          /\ n_inliers = None /\ n_outliers = None
    /\ LastRun("MemoryError") =>
          /\ Outputs_inliers = None /\ Outputs_outliers = None
          /\ Error_memory_error
          /\ n_inliers = None /\ n_outliers = None

\* a failure that follows a successful run
C4_Witness == LastRun("ValueError") /\ prior_known /\ Error_singular_cov

\* C5: without an input dataset both outputs are None, the counts are None
\* and a report request emits nothing.
C5_NoDataNoOutputNoReport ==
    data = None =>
        /\ Outputs_inliers = None /\ Outputs_outliers = None
        /\ send_report(W) = None
        /\ last_op = "send_report" => report = None

\* the report was requested after the dataset of a successful run was removed
C5_Witness ==
    /\ data = None
    /\ last_op = "send_report"
    /\ last_run # None /\ Val(last_run).kind = "ok"

\* C6: the outputs of a Covariance run have the input's domain with the one
\* meta column "Mahalanobis" appended, and each of their rows is a row of
\* the input with one meta value appended, in the input's order; the
\* outputs of a OneClassSVM run have the input's domain and rows.
C6_MahalanobisColumn ==
    Published =>
        LET d == Val(data)
            m == Val(last_run).method
        IN \A o \in {Val(Outputs_inliers), Val(Outputs_outliers)} :
              /\ InOrder(o)
              /\ IF m = Covariance
                 THEN /\ o.domain.attributes = d.domain.attributes
                      /\ o.domain.class_vars = d.domain.class_vars
                      /\ o.domain.metas = Append(d.domain.metas, "Mahalanobis")
                      /\ \A k \in 1..TableLen(o) :
                            LET r == o.rows[k]
                                src == d.rows[r.id]
                            IN /\ Len(r.metas) = Len(src.metas) + 1
                               /\ SubSeq(r.metas, 1, Len(src.metas)) = src.metas
                 ELSE /\ o.domain = d.domain
                      /\ \A k \in 1..TableLen(o) : o.rows[k] = d.rows[o.rows[k].id]

C6_Witness ==
    /\ Published
    /\ Val(last_run).method = Covariance
    /\ TableLen(Val(Outputs_inliers)) > 0
    /\ TableLen(Val(Outputs_outliers)) > 0

\* C7 (as claimed): the arrival of a dataset with more than 1500 attribute
\* columns shows the warning and disables the Covariance controls; a step
\* that is not the arrival of a dataset with at most 1500 attribute columns
\* keeps a shown warning and the controls disabled; the arrival of such a
\* dataset enables the controls and clears the warning.
WideArrival ==
    last_op' = "set_data" /\ data' # None /\ Val(data').domain.attributes > MAX_FEATURES

QualifyingArrival ==
    last_op' = "set_data" /\ data' # None /\ Val(data').domain.attributes <= MAX_FEATURES

C7_Claim_WarningUntilQualifyingDataset ==
    [][/\ WideArrival => (Warning_disabled_cov' /\ AllCovDisabled')
       /\ (Warning_disabled_cov /\ ~QualifyingArrival)
             => (Warning_disabled_cov' /\ AllCovDisabled')
       /\ QualifyingArrival => (~Warning_disabled_cov' /\ AllCovEnabled')]_vars

\* C8: the counts are both None or both known; they are known exactly when
\* the last commit fitted a learner on the current dataset and succeeded;
\* known counts are the lengths of the two outputs and add up to the length
\* of the current dataset.
C8_CountsMatchOutputs ==
    /\ (n_inliers = None) <=> (n_outliers = None)
    /\ Known <=> LastRun("ok")
    /\ Known =>
          /\ Published /\ Outputs_outliers # None
          /\ Val(n_inliers) = TableLen(Val(Outputs_inliers))
          /\ Val(n_outliers) = TableLen(Val(Outputs_outliers))
          /\ Val(n_inliers) + Val(n_outliers) = TableLen(Val(data))

\* counts known after a Detect trigger that followed a failed run
C8_Witness ==
    /\ Known /\ last_op = "commit" /\ ~prior_known
    /\ Val(n_inliers) > 0 /\ Val(n_outliers) > 0

\* C9: after a dataset arrival a shown warning or error is one this arrival
\* raised (the earlier ones were cleared before the guard and the run), and
\* no run ever fitted the covariance estimator on more than 1500 attribute
\* columns.
C9_NoCovarianceFitAboveThreshold ==
    /\ last_op = "set_data" =>
          /\ Warning_disabled_cov =>
                (data # None /\ Val(data).domain.attributes > MAX_FEATURES)
          /\ Error_singular_cov => LastRun("ValueError")
          /\ Error_memory_error => LastRun("MemoryError")
    /\ (last_run # None /\ Val(last_run).method = Covariance)
          => Val(last_run).attributes <= MAX_FEATURES

\* a wide dataset arrived while Covariance was active, and was fitted
C9_Witness ==
    /\ last_op = "set_data"
    /\ prev_method = Covariance
    /\ data # None /\ Val(data).domain.attributes > MAX_FEATURES
    /\ last_run # None /\ Val(last_run).current
    /\ Val(last_run).method = OneClassSVM

\* C10: at most one error is shown; a shown error is the failure of the last
\* run; no error is shown after a successful run, nor after an arrival that
\* leaves the widget without data.
C10_ErrorsReflectLastRun ==
    /\ ~(Error_singular_cov /\ Error_memory_error)
    /\ Error_singular_cov => (last_run # None /\ Val(last_run).kind = "ValueError")
    /\ Error_memory_error => (last_run # None /\ Val(last_run).kind = "MemoryError")
    /\ LastRun("ok") => (~Error_singular_cov /\ ~Error_memory_error)
    /\ (last_op = "set_data" /\ data = None)
          => (~Error_singular_cov /\ ~Error_memory_error)

\* a Detect trigger whose run failed for lack of memory
C10_Witness ==
    /\ LastRun("MemoryError") /\ last_op = "commit"
    /\ Error_memory_error /\ ~Error_singular_cov

====
